---- MODULE Spec2Model ----
(***************************************************************************)
(* BladeAPI (src/main.py): the /sync-calendar handler with its paginated   *)
(* Google Calendar fetch and its upsert into the calendar_events           *)
(* collection, and the /add_user handler over the users collection with    *)
(* its two unique indexes.                                                 *)
(***************************************************************************)
EXTENDS Naturals, Sequences, FiniteSets, TLC

\* ------------------------------------------------------------------ bounds
MaxPages == 3
MaxEvents == 2
NumCalls == 2

\* ------------------------------------------------------- python values
\* Python's None (dict.get on an absent key, Credentials(None, ...)).
None == "<None>"

\* Python truthiness of an optional string: None and "" are falsy.
Falsy(v) == v = None \/ v = ""

\* dict.get(key): the value, or None when the key is absent.
Get(d, k) == IF k \in DOMAIN d THEN d[k] ELSE None

\* The absent nextPageToken / the initial page_token = None.  Page cursors
\* are page numbers (>= 2), so 0 is the only falsy token.
NoToken == 0

\* ------------------------------------------------------------ the inputs
\* Event resources the provider may hold: two versions of event "a" (same
\* id, different content), an event "b", an event with an empty id and an
\* event with no id key at all.
EventPool ==
  { [id |-> "a", summary |-> "s1"],
    [id |-> "a", summary |-> "s2"],
    [id |-> "b", summary |-> "s1"],
    [id |-> "", summary |-> "s1"],
    [summary |-> "s1"] }

\* Two distinct events, enough to observe order across pages.
PagedPool == { [id |-> "a", summary |-> "s1"], [id |-> "b", summary |-> "s1"] }

\* The lists of at most n elements of S.
Lists(S, n) == UNION { [1..k -> S] : k \in 0..n }

RECURSIVE FeedsOf(_, _, _)
\* Every split of at most `events` items of S into 1..pages pages (a page may
\* be empty); a feed is the sequence of the pages' item lists.
FeedsOf(S, pages, events) ==
  IF pages = 0 THEN {}
  ELSE UNION { {<<l>>} \cup { <<l>> \o f : f \in FeedsOf(S, pages - 1, events - Len(l)) }
               : l \in Lists(S, events) }

Feeds == FeedsOf(PagedPool, MaxPages, MaxEvents) \cup FeedsOf(EventPool, 1, MaxEvents)

\* Request bodies of /sync-calendar, by what _fetch_all_events_sync reads.
Payloads ==
  { [auth_type |-> "oauth", client_id |-> "id", client_secret |-> "secret",
     refresh_token |-> "rt"],
    [auth_type |-> "oauth", client_id |-> "id", client_secret |-> "secret"],
    [auth_type |-> "service_account", service_account_keyfile |-> "key.json"],
    [auth_type |-> "service_account"],
    [client_id |-> "id"] }

Calls == 1..NumCalls

VARIABLES
  feed,             \* the provider's calendar: the pages' item lists
  calendar_events,  \* the collection, in natural order; a document's _id is its index
  slots,            \* how many sync calls may be in flight at once
  pc,               \* each call's position in sync_calendar
  payload,          \* the request body
  token,            \* creds.token of the call's credentials
  page_token,       \* _fetch_all_events_sync's page_token
  events,           \* _fetch_all_events_sync's events, then sync_calendar's
  reqs,             \* the events().list requests the call issued, in order
  served,           \* the pages the provider answered the call with, in order
  idx,              \* the position of `for ev in events`
  found,            \* update_one: the _id the filter matched (0: none)
  inserted, updated, errors,
  wrote,            \* the writes to calendar_events the call committed: _id and document
  response,         \* what the call returned to its client
  prev,             \* the outcome of the last call answered: clean run and store
  users,            \* the users collection, in natural order; _id is the index
  offered,          \* the request bodies /add_user may receive
  upc,              \* each add_user call's position
  user,             \* add_user's user (the request body)
  existing,         \* add_user's existing: the _id find_one returned (0: None)
  ubefore,          \* the users collection when the call arrived
  uresponse         \* what add_user returned to its client

syncVars == <<feed, calendar_events, slots, pc, payload, token, page_token,
              events, reqs, served, idx, found, inserted, updated, errors,
              wrote, response, prev>>
userVars == <<users, offered, upc, user, existing, ubefore, uresponse>>
vars == <<syncVars, userVars>>

\* ------------------------------------------------------------- helpers
RECURSIVE Flatten(_)
\* The concatenation of a sequence of lists.
Flatten(ls) == IF ls = <<>> THEN <<>> ELSE Head(ls) \o Flatten(Tail(ls))

\* The provider's answer to events().list(pageToken = tok): the page the
\* cursor names (the first one for no cursor), with a nextPageToken on every
\* page but the last.
ServePage(tok) ==
  LET i == IF tok = NoToken THEN 1 ELSE tok
  IN  [items |-> feed[i],
       nextPageToken |-> IF i < Len(feed) THEN i + 1 ELSE NoToken]

\* (mutant) the credentials pass for valid without a token: no refresh.
CredsValidAlways(tok) == TRUE

\* creds.valid: an access token is held (and has not expired).
CredsValid(tok) == tok # None

\* The first of the keys oauth requires that the payload lacks, or None.
MissingOAuthKey(pl) ==
  IF "client_id" \notin DOMAIN pl THEN "client_id"
  ELSE IF "client_secret" \notin DOMAIN pl THEN "client_secret"
  ELSE IF "refresh_token" \notin DOMAIN pl THEN "refresh_token"
  ELSE None

\* The ValueError the validation of the payload raises, or None.
AuthError(pl) ==
  LET auth_type == Get(pl, "auth_type")
  IN  IF auth_type = "oauth"
        THEN IF MissingOAuthKey(pl) # None
               THEN MissingOAuthKey(pl) \o " required for oauth" ELSE None
      ELSE IF auth_type = "service_account"
        THEN IF "service_account_keyfile" \notin DOMAIN pl
               THEN "service_account_keyfile required for service_account" ELSE None
      ELSE "unknown auth_type"

\* (mutant) events = items: each page replaces the list.
ExtendReplaces(evs, items) == items

\* events.extend(items)
Extend(evs, items) == evs \o items

\* _normalize_event: every field is event.get(field); the original is kept
\* under raw.  (status, description, location, ... are read like summary.)
NormalizeEvent(ev) ==
  [id |-> Get(ev, "id"), summary |-> Get(ev, "summary"), raw |-> ev]

\* (mutant) a filter that matches no stored document.
MatchesNothing(stored, id) == FALSE

\* The filter {"id": doc["id"]} of update_one.
Matches(stored, id) == stored.id = id

\* update_one's query: the first document in natural order the filter
\* matches, 0 when there is none.
FindOne(coll, id) ==
  IF \E i \in 1..Len(coll) : Matches(coll[i], id)
    THEN CHOOSE i \in 1..Len(coll) :
           Matches(coll[i], id) /\ \A j \in 1..(i - 1) : ~Matches(coll[j], id)
    ELSE 0

\* getattr(res, "upserted_id", None) is truthy
IsInserted(res) == res.upserted_id # 0

\* (mutant) counts an update only when the document changed.
IsUpdatedIfModified(res) == res.modified_count > 0

\* getattr(res, "matched_count", 0) > 0
IsUpdated(res) == res.matched_count > 0

\* The HTTPException(status_code=400, detail=f"Google API error: {e}")
Http400(e) == [status |-> "400", detail |-> "Google API error: " \o e]

NoResponse == [status |-> "none"]

InFlight == { q \in Calls : pc[q] \notin {"idle", "closed"} }

\* A run with no storage failure: no {"id", "error"} entry in errors.
Clean(errs) == \A k \in 1..Len(errs) : errs[k].kind # "error"

\* ------------------------------------------------------------------ Init
InitUsersIdle ==
  /\ users = <<>>
  /\ offered = {}
  /\ upc = [u \in Calls |-> "idle"]
  /\ user = [u \in Calls |-> <<>>]
  /\ existing = [u \in Calls |-> 0]
  /\ ubefore = [u \in Calls |-> <<>>]
  /\ uresponse = [u \in Calls |-> NoResponse]

\* No call has arrived.
InitCalls ==
  /\ pc = [p \in Calls |-> "idle"]
  /\ payload = [p \in Calls |-> <<>>]
  /\ token = [p \in Calls |-> None]
  /\ page_token = [p \in Calls |-> NoToken]
  /\ events = [p \in Calls |-> <<>>]
  /\ reqs = [p \in Calls |-> <<>>]
  /\ served = [p \in Calls |-> <<>>]
  /\ idx = [p \in Calls |-> 0]
  /\ found = [p \in Calls |-> 0]
  /\ inserted = [p \in Calls |-> 0]
  /\ updated = [p \in Calls |-> 0]
  /\ errors = [p \in Calls |-> <<>>]
  /\ wrote = [p \in Calls |-> <<>>]
  /\ response = [p \in Calls |-> NoResponse]
  /\ prev = [clean |-> FALSE, events |-> <<>>, store |-> <<>>]

InitSync ==
  /\ feed \in Feeds
  /\ calendar_events = <<>>
  /\ InitCalls

\* Concurrent requests: two calls may be in flight at once, over a calendar
\* of one page.
Init == InitSync /\ Len(feed) = 1 /\ slots = 2 /\ InitUsersIdle

\* One request at a time, on the empty collection.
InitSeqEmpty == InitSync /\ slots = 1 /\ InitUsersIdle

\* The documents a sync stores: the normalized events that carry an id.
SyncedDocs == { NormalizeEvent(ev) : ev \in { e \in EventPool : ~Falsy(Get(e, "id")) } }

\* The collections earlier syncs, served one at a time, may have left: at
\* most one document per event id.
SyncedColls ==
  { c \in Lists(SyncedDocs, Cardinality({ d.id : d \in SyncedDocs })) :
      \A i, j \in 1..Len(c) : i # j => c[i].id # c[j].id }

\* One request at a time, on any such collection.
InitSeq ==
  /\ feed \in Feeds
  /\ calendar_events \in SyncedColls
  /\ InitCalls
  /\ slots = 1
  /\ InitUsersIdle

\* --------------------------------------------------------- sync_calendar
\* A POST /sync-calendar arrives.
Start(p) ==
  /\ pc[p] = "idle"
  /\ \A q \in Calls : q < p => pc[q] # "idle"
  /\ Cardinality(InFlight) < slots
  /\ \E pl \in Payloads : payload' = [payload EXCEPT ![p] = pl]
  /\ pc' = [pc EXCEPT ![p] = "auth"]
  /\ UNCHANGED <<feed, calendar_events, slots, token, page_token, events, reqs,
                 served, idx, found, inserted, updated, errors, wrote,
                 response, prev, userVars>>

\* The call ends with HTTP 400: the except of sync_calendar.
Raise400(p, e) ==
  /\ pc' = [pc EXCEPT ![p] = "done"]
  /\ response' = [response EXCEPT ![p] = Http400(e)]

\* _fetch_all_events_sync up to the service: the payload's validation and
\* the credentials (the OAuth refresh when creds.valid is false).
BuildService(p) ==
  /\ pc[p] = "auth"
  /\ \/ /\ AuthError(payload[p]) # None
        /\ Raise400(p, AuthError(payload[p]))
        /\ UNCHANGED token
     \/ /\ AuthError(payload[p]) = None
        /\ payload[p].auth_type = "oauth"
        /\ ~CredsValid(None)
        /\ Raise400(p, "RefreshError")
        /\ UNCHANGED token
     \/ /\ AuthError(payload[p]) = None
        /\ payload[p].auth_type = "oauth"
        /\ token' = [token EXCEPT ![p] = IF CredsValid(None) THEN None ELSE "access"]
        /\ pc' = [pc EXCEPT ![p] = "list"]
        /\ UNCHANGED response
     \/ /\ AuthError(payload[p]) = None
        /\ payload[p].auth_type = "service_account"
        /\ Raise400(p, "keyfile unreadable")
        /\ UNCHANGED token
     \/ /\ AuthError(payload[p]) = None
        /\ payload[p].auth_type = "service_account"
        /\ token' = [token EXCEPT ![p] = "service"]
        /\ pc' = [pc EXCEPT ![p] = "list"]
        /\ UNCHANGED response
  /\ UNCHANGED <<feed, calendar_events, slots, payload, page_token, events, reqs,
                 served, idx, found, inserted, updated, errors, wrote, prev,
                 userVars>>

\* One turn of the while loop: events().list(pageToken=page_token).execute()
\* answers with a page.
ListPage(p) ==
  /\ pc[p] = "list"
  /\ LET resp == ServePage(page_token[p])
     IN  /\ reqs' = [reqs EXCEPT ![p] =
                       Append(@, [pageToken |-> page_token[p], token |-> token[p],
                                  ok |-> TRUE])]
         /\ served' = [served EXCEPT ![p] = Append(@, resp)]
         /\ events' = [events EXCEPT ![p] = Extend(@, resp.items)]
         /\ page_token' = [page_token EXCEPT ![p] = resp.nextPageToken]
         /\ IF resp.nextPageToken = NoToken
              THEN pc' = [pc EXCEPT ![p] = "upsert"] /\ idx' = [idx EXCEPT ![p] = 1]
              ELSE UNCHANGED <<pc, idx>>
  /\ UNCHANGED <<feed, calendar_events, slots, payload, token, found, inserted,
                 updated, errors, wrote, response, prev, userVars>>

\* (mutant) a failed page ends the listing with the pages fetched so far.
ListFailsSwallowed(p) ==
  /\ pc[p] = "list"
  /\ reqs' = [reqs EXCEPT ![p] =
                Append(@, [pageToken |-> page_token[p], token |-> token[p],
                           ok |-> FALSE])]
  /\ pc' = [pc EXCEPT ![p] = "upsert"]
  /\ idx' = [idx EXCEPT ![p] = 1]
  /\ UNCHANGED <<feed, calendar_events, slots, payload, token, page_token, events,
                 served, found, inserted, updated, errors, wrote, response, prev,
                 userVars>>

\* events().list(...).execute() raises: the listing is abandoned.
ListFails(p) ==
  /\ pc[p] = "list"
  /\ reqs' = [reqs EXCEPT ![p] =
                Append(@, [pageToken |-> page_token[p], token |-> token[p],
                           ok |-> FALSE])]
  /\ Raise400(p, "HttpError")
  /\ UNCHANGED <<feed, calendar_events, slots, payload, token, page_token, events,
                 served, idx, found, inserted, updated, errors, wrote, prev,
                 userVars>>

\* for ev in events: an event whose id is missing or empty is skipped.
SkipNoId(p) ==
  /\ pc[p] = "upsert"
  /\ idx[p] <= Len(events[p])
  /\ Falsy(NormalizeEvent(events[p][idx[p]]).id)
  /\ errors' = [errors EXCEPT ![p] =
                  Append(@, [kind |-> "event_no_id", ev |-> events[p][idx[p]]])]
  /\ idx' = [idx EXCEPT ![p] = @ + 1]
  /\ UNCHANGED <<feed, calendar_events, slots, pc, payload, token, page_token,
                 events, reqs, served, found, inserted, updated, wrote,
                 response, prev, userVars>>

\* coll.update_one(filter, $set, upsert=True), the query: no unique index on
\* calendar_events makes the match and the write two steps: another call's
\* write may fall between them.
UpsertFind(p) ==
  /\ pc[p] = "upsert"
  /\ idx[p] <= Len(events[p])
  /\ ~Falsy(NormalizeEvent(events[p][idx[p]]).id)
  /\ found' = [found EXCEPT ![p] =
                 FindOne(calendar_events, NormalizeEvent(events[p][idx[p]]).id)]
  /\ pc' = [pc EXCEPT ![p] = "write"]
  /\ UNCHANGED <<feed, calendar_events, slots, payload, token, page_token, events,
                 reqs, served, idx, inserted, updated, errors, wrote, response,
                 prev, userVars>>

\* update_one's result: the matched document gets the $set, or the upsert
\* inserts a new one.
UpdateOne(coll, at, doc) ==
  IF at # 0
    THEN [coll |-> [coll EXCEPT ![at] = doc],
          res |-> [upserted_id |-> 0, matched_count |-> 1,
                   modified_count |-> IF coll[at] = doc THEN 0 ELSE 1]]
    ELSE [coll |-> Append(coll, doc),
          res |-> [upserted_id |-> Len(coll) + 1, matched_count |-> 0,
                   modified_count |-> 0]]

\* coll.update_one(...), the write, and the counting of its result.
UpsertWrite(p) ==
  /\ pc[p] = "write"
  /\ LET r == UpdateOne(calendar_events, found[p], NormalizeEvent(events[p][idx[p]]))
     IN  /\ calendar_events' = r.coll
         /\ inserted' = [inserted EXCEPT ![p] = IF IsInserted(r.res) THEN @ + 1 ELSE @]
         /\ updated' = [updated EXCEPT ![p] =
                          IF ~IsInserted(r.res) /\ IsUpdated(r.res) THEN @ + 1 ELSE @]
  /\ wrote' = [wrote EXCEPT ![p] =
                 Append(@, [at |-> IF found[p] # 0 THEN found[p]
                                                   ELSE Len(calendar_events) + 1,
                            doc |-> NormalizeEvent(events[p][idx[p]])])]
  /\ idx' = [idx EXCEPT ![p] = @ + 1]
  /\ pc' = [pc EXCEPT ![p] = "upsert"]
  /\ UNCHANGED <<feed, slots, payload, token, page_token, events, reqs, served,
                 found, errors, response, prev, userVars>>

\* (mutant) a storage failure ends the call with an error.
UpsertFailsRaises(p) ==
  /\ pc[p] = "upsert"
  /\ idx[p] <= Len(events[p])
  /\ ~Falsy(NormalizeEvent(events[p][idx[p]]).id)
  /\ pc' = [pc EXCEPT ![p] = "done"]
  /\ response' = [response EXCEPT ![p] = [status |-> "400", detail |-> "storage"]]
  /\ UNCHANGED <<feed, calendar_events, slots, payload, token, page_token, events,
                 reqs, served, idx, found, inserted, updated, errors, wrote,
                 prev, userVars>>

\* coll.update_one(...) raises: the except of the loop records the event.
UpsertFails(p) ==
  /\ pc[p] = "upsert"
  /\ idx[p] <= Len(events[p])
  /\ ~Falsy(NormalizeEvent(events[p][idx[p]]).id)
  /\ errors' = [errors EXCEPT ![p] =
                  Append(@, [kind |-> "error",
                             id |-> NormalizeEvent(events[p][idx[p]]).id])]
  /\ idx' = [idx EXCEPT ![p] = @ + 1]
  /\ UNCHANGED <<feed, calendar_events, slots, pc, payload, token, page_token,
                 events, reqs, served, found, inserted, updated, wrote,
                 response, prev, userVars>>

\* The loop is over: the handler returns its report.
Respond(p) ==
  /\ pc[p] = "upsert"
  /\ idx[p] > Len(events[p])
  /\ response' = [response EXCEPT ![p] =
                    [status |-> "ok", total_fetched |-> Len(events[p]),
                     inserted |-> inserted[p], updated |-> updated[p],
                     errors |-> errors[p]]]
  /\ pc' = [pc EXCEPT ![p] = "done"]
  /\ UNCHANGED <<feed, calendar_events, slots, payload, token, page_token, events,
                 reqs, served, idx, found, inserted, updated, errors, wrote,
                 prev, userVars>>

\* The response leaves the server: the request's locals are gone.  (prev is
\* kept when requests are served one at a time.)
Reply(p) ==
  /\ pc[p] = "done"
  /\ prev' = IF slots = 1 /\ response[p].status = "ok" /\ Clean(errors[p])
               THEN [clean |-> TRUE, events |-> events[p], store |-> calendar_events]
               ELSE [clean |-> FALSE, events |-> <<>>, store |-> <<>>]
  /\ pc' = [pc EXCEPT ![p] = "closed"]
  /\ payload' = [payload EXCEPT ![p] = <<>>]
  /\ token' = [token EXCEPT ![p] = None]
  /\ page_token' = [page_token EXCEPT ![p] = NoToken]
  /\ events' = [events EXCEPT ![p] = <<>>]
  /\ reqs' = [reqs EXCEPT ![p] = <<>>]
  /\ served' = [served EXCEPT ![p] = <<>>]
  /\ idx' = [idx EXCEPT ![p] = 0]
  /\ found' = [found EXCEPT ![p] = 0]
  /\ inserted' = [inserted EXCEPT ![p] = 0]
  /\ updated' = [updated EXCEPT ![p] = 0]
  /\ errors' = [errors EXCEPT ![p] = <<>>]
  /\ wrote' = [wrote EXCEPT ![p] = <<>>]
  /\ response' = [response EXCEPT ![p] = NoResponse]
  /\ UNCHANGED <<feed, calendar_events, slots, userVars>>

CallNext(p) ==
    \/ Start(p)
    \/ BuildService(p)
    \/ ListPage(p)
    \/ ListFails(p)
    \/ SkipNoId(p)
    \/ UpsertFind(p)
    \/ UpsertWrite(p)
    \/ UpsertFails(p)
    \/ Respond(p)
    \/ Reply(p)

Next == \E p \in Calls : CallNext(p)

Spec == Init /\ [][Next]_vars

SpecSeq == InitSeq /\ [][Next]_vars

\* ------------------------------------------------------------- add_user
Names == {"n1", "n2"}
Emails == {"e1", "e2"}
Squads == {None, "M1"}

\* User bodies: name and email are required, the other fields are optional
\* (squad stands for username, password, squad, age, weight, height).
UserBodies == [name : Names, email : Emails, squad : Squads]

\* (mutant) no unique index was created.
NoUniqueIndex(coll, doc, at) == FALSE

\* The unique indexes of lifespan: another document of the collection holds
\* the email or the name of doc (at: doc's own _id, 0 for a new document).
DuplicateKey(coll, doc, at) ==
  \E j \in 1..Len(coll) :
    j # at /\ (coll[j].email = doc.email \/ coll[j].name = doc.name)

\* The collections the unique indexes allow.
UserColls ==
  { c \in Lists(UserBodies, Cardinality(Names)) :
      \A i \in 1..Len(c) : ~DuplicateKey(c, c[i], i) }

\* The filter {"$or": [{"email": user.email}, {"name": user.name}]}.
MatchesUser(stored, body) == stored.email = body.email \/ stored.name = body.name

\* The _ids find_one may return (0: None when nothing matches).
FindUser(coll, body) ==
  IF \E i \in 1..Len(coll) : MatchesUser(coll[i], body)
    THEN { i \in 1..Len(coll) : MatchesUser(coll[i], body) }
    ELSE {0}

\* {"$set": update_fields}: the incoming fields that are not None.
SetFields(stored, body) ==
  [name |-> body.name, email |-> body.email,
   squad |-> IF body.squad # None THEN body.squad ELSE stored.squad]

InitSyncIdle ==
  /\ feed = <<>>
  /\ calendar_events = <<>>
  /\ InitCalls

InitUserCalls ==
  /\ upc = [u \in Calls |-> "idle"]
  /\ user = [u \in Calls |-> <<>>]
  /\ existing = [u \in Calls |-> 0]
  /\ ubefore = [u \in Calls |-> <<>>]
  /\ uresponse = [u \in Calls |-> NoResponse]

\* add_user requests with any body, on any collection the indexes allow,
\* served one at a time (slots = 1) or two at a time.
InitUsers ==
  /\ InitSyncIdle /\ InitUserCalls
  /\ slots \in {1, 2}
  /\ users \in UserColls
  /\ offered = UserBodies

\* Concurrent add_user requests that all carry one email and one name, on a
\* collection where no user has either.
InitRace ==
  /\ InitSyncIdle /\ InitUserCalls
  /\ slots = NumCalls
  /\ \E n \in Names, e \in Emails :
       offered = { b \in UserBodies : b.name = n /\ b.email = e }
  /\ users \in { c \in UserColls :
                   \A b \in offered : \A i \in 1..Len(c) : ~MatchesUser(c[i], b) }

UInFlight == { q \in Calls : upc[q] \notin {"idle", "done"} }

\* A POST /add_user arrives.
UStart(u) ==
  /\ upc[u] = "idle"
  /\ \A q \in Calls : q < u => upc[q] # "idle"
  /\ Cardinality(UInFlight) < slots
  /\ \E b \in offered : user' = [user EXCEPT ![u] = b]
  /\ ubefore' = [ubefore EXCEPT ![u] = users]
  /\ upc' = [upc EXCEPT ![u] = "find"]
  /\ UNCHANGED <<users, offered, existing, uresponse, syncVars>>

\* existing = await users_col.find_one({"$or": ...})
UFind(u) ==
  /\ upc[u] = "find"
  /\ \E i \in FindUser(users, user[u]) :
       /\ existing' = [existing EXCEPT ![u] = i]
       /\ upc' = [upc EXCEPT ![u] = IF i # 0 THEN "update" ELSE "insert"]
  /\ UNCHANGED <<users, offered, user, ubefore, uresponse, syncVars>>

\* The update path (of the first find, and of the find after E11000):
\* update_one({"_id": existing["_id"]}, {"$set": update_fields}); the unique
\* indexes refuse a $set that takes another user's email or name, and that
\* DuplicateKeyError is caught nowhere.
UUpdate(u) ==
  /\ upc[u] = "update"
  /\ LET doc == SetFields(users[existing[u]], user[u])
     IN  IF DuplicateKey(users, doc, existing[u])
           THEN /\ uresponse' = [uresponse EXCEPT ![u] = [status |-> 500]]
                /\ UNCHANGED users
           ELSE /\ users' = [users EXCEPT ![existing[u]] = doc]
                /\ uresponse' = [uresponse EXCEPT ![u] =
                                   [status |-> 200, updated |-> TRUE,
                                    id |-> existing[u]]]
  /\ upc' = [upc EXCEPT ![u] = "done"]
  /\ UNCHANGED <<offered, user, existing, ubefore, syncVars>>

\* res = await users_col.insert_one(user_dict): the new user, or E11000.
UInsert(u) ==
  /\ upc[u] = "insert"
  /\ IF DuplicateKey(users, user[u], 0)
       THEN /\ upc' = [upc EXCEPT ![u] = "refind"]
            /\ UNCHANGED <<users, uresponse>>
       ELSE /\ users' = Append(users, user[u])
            /\ uresponse' = [uresponse EXCEPT ![u] =
                               [status |-> 201, created |-> TRUE,
                                id |-> Len(users) + 1]]
            /\ upc' = [upc EXCEPT ![u] = "done"]
  /\ UNCHANGED <<offered, user, existing, ubefore, syncVars>>

\* The except of the insert: find again; 409 when nothing matches any more.
URefind(u) ==
  /\ upc[u] = "refind"
  /\ \E i \in FindUser(users, user[u]) :
       /\ existing' = [existing EXCEPT ![u] = i]
       /\ IF i # 0
            THEN upc' = [upc EXCEPT ![u] = "update"] /\ UNCHANGED uresponse
            ELSE /\ upc' = [upc EXCEPT ![u] = "done"]
                 /\ uresponse' = [uresponse EXCEPT ![u] = [status |-> 409]]
  /\ UNCHANGED <<users, offered, user, ubefore, syncVars>>

UserNext(u) ==
    \/ UStart(u)
    \/ UFind(u)
    \/ UUpdate(u)
    \/ UInsert(u)
    \/ URefind(u)

NextUsers == \E u \in Calls : UserNext(u)

SpecUsers == InitUsers /\ [][NextUsers]_vars

SpecRace == InitRace /\ [][NextUsers]_vars

\* ================================================================ claims
SpecFair == InitSeqEmpty /\ [][Next]_vars /\ \A p \in Calls : WF_vars(CallNext(p))

\* The items of the pages a call was answered with, in order.
ServedItems(p) == Flatten([k \in 1..Len(served[p]) |-> served[p][k].items])

\* The call's fetch has returned its list.
Fetched(p) == pc[p] \in {"upsert", "write"} \/ (pc[p] = "done" /\ response[p].status = "ok")

\* How many events of a list carry an id.
WithId(evs) == Cardinality({ k \in 1..Len(evs) : ~Falsy(Get(evs[k], "id")) })

\* C1: the listing asks for the first page with no page token, for each
\* following page with exactly the token the previous page returned, stops
\* after the first page without nextPageToken, and returns the concatenation
\* of all the pages' items in their order.
C1_Pagination ==
  \A p \in Calls :
    /\ Len(reqs[p]) >= 1 => reqs[p][1].pageToken = NoToken
    /\ \A k \in 2..Len(reqs[p]) :
         /\ k - 1 <= Len(served[p])
         /\ reqs[p][k].pageToken = served[p][k - 1].nextPageToken
         /\ served[p][k - 1].nextPageToken # NoToken
    /\ Len(reqs[p]) <= Len(served[p]) + 1
    /\ events[p] = ServedItems(p)
    /\ Fetched(p) =>
         /\ Len(served[p]) = Len(feed)
         /\ served[p][Len(served[p])].nextPageToken = NoToken
         /\ events[p] = Flatten(feed)

\* C1 witness: a listing of three pages holding two events has returned.
C1_Witness ==
  \E p \in Calls :
    /\ pc[p] = "upsert" /\ idx[p] = 1
    /\ Len(reqs[p]) = 3 /\ Len(events[p]) = 2
    /\ events[p][1] # events[p][2]

\* C2: a failed credential check, token refresh or page fetch aborts the
\* listing: the failed request is the call's last one (not re-issued, no further
\* page), the call ends with an error, and it wrote nothing to calendar_events.
C2_FetchFailureAborts ==
  \A p \in Calls :
    /\ \A k \in 1..Len(reqs[p]) :
         ~reqs[p][k].ok =>
           /\ k = Len(reqs[p])
           /\ pc[p] = "done"
           /\ response[p].status = "400"
    /\ (pc[p] \notin {"idle", "auth", "closed"} /\ AuthError(payload[p]) # None) =>
         /\ pc[p] = "done" /\ response[p].status = "400" /\ reqs[p] = <<>>
    /\ response[p].status = "400" =>
         /\ pc[p] = "done"
         /\ wrote[p] = <<>> /\ inserted[p] = 0 /\ updated[p] = 0

\* C2 witness: a call failed on its second page, after a page was fetched.
C2_Witness ==
  \E p \in Calls :
    /\ response[p].status = "400"
    /\ Len(reqs[p]) = 2 /\ reqs[p][1].ok /\ ~reqs[p][2].ok
    /\ Len(events[p]) >= 1

\* C3: a second sequential run over the same list, with no storage failure,
\* leaves calendar_events as the first run left it, with exactly one document
\* per distinct non-empty event id; it reports inserted = 0 and counts every
\* event with an id as updated.
C3_Idempotent ==
  \A p \in Calls :
    (pc[p] = "done" /\ response[p].status = "ok" /\ Clean(errors[p])) =>
      /\ \A k \in 1..Len(events[p]) :
           ~Falsy(Get(events[p][k], "id")) =>
             Cardinality({ i \in 1..Len(calendar_events) :
                           calendar_events[i].id = events[p][k].id }) = 1
      /\ (prev.clean /\ prev.events = events[p]) =>
           /\ calendar_events = prev.store
           /\ response[p].inserted = 0
           /\ response[p].updated = WithId(events[p])

\* C3 witness: the second clean run over a list that repeats an id is done.
C3_Witness ==
  \E p \in Calls :
    /\ pc[p] = "done" /\ response[p].status = "ok" /\ Clean(errors[p])
    /\ prev.clean /\ prev.events = events[p]
    /\ Len(events[p]) = 2
    /\ Get(events[p][1], "id") = "a" /\ Get(events[p][2], "id") = "a"
    /\ events[p][1] # events[p][2]
    /\ response[p].updated = 2

\* C4 (the claim as stated): calendar_events never holds two documents with
\* the same provider event id, under every interleaving of concurrent syncs.
C4_UniqueProviderId ==
  \A i, j \in 1..Len(calendar_events) :
    i # j => calendar_events[i].id # calendar_events[j].id

\* C5 (the claim as stated): a sync in OAuth mode without a refresh token
\* returns a connect URL with state=<userId>, issues no token refresh and no
\* calendar call, and writes nothing.
C5_ConnectUrl ==
  \A p \in Calls :
    (pc[p] = "done" /\ Get(payload[p], "auth_type") = "oauth"
       /\ "refresh_token" \notin DOMAIN payload[p]) =>
      /\ "connect_url" \in DOMAIN response[p]
      /\ reqs[p] = <<>> /\ token[p] = None /\ wrote[p] = <<>>

\* The call met an exception: of the credential check, the refresh or a page
\* fetch (HTTP 400), or of a storage write (an "error" entry).
ExceptionRaised(p) == response[p].status = "400" \/ ~Clean(errors[p])

Committed(p) ==
  \A k \in 1..Len(wrote[p]) :
    /\ wrote[p][k].at <= Len(calendar_events)
    /\ calendar_events[wrote[p][k].at].id = wrote[p][k].doc.id
    /\ (slots = 1 /\ \A m \in (k + 1)..Len(wrote[p]) : wrote[p][m].at # wrote[p][k].at)
         => calendar_events[wrote[p][k].at] = wrote[p][k].doc

Refreshed(p) == pc[p] = "list" /\ Get(payload[p], "auth_type") = "oauth"

\* The call ended with its report, or a page fetch failed.
Completed(p) ==
  /\ pc[p] = "done"
  /\ \/ response[p].status = "ok"
     \/ (reqs[p] # <<>> /\ ~reqs[p][Len(reqs[p])].ok)

\* No events().list request of an OAuth call went out without an access token.
ListsWithToken ==
  \A p \in Calls :
    Get(payload[p], "auth_type") = "oauth" =>
      /\ \A k \in 1..Len(reqs[p]) : reqs[p][k].token = "access"
      /\ pc[p] \in {"list", "upsert", "write"} => CredsValid(token[p])

\* C8: in OAuth mode the access token is refreshed before the first
\* events().list request, so no list request goes out without a valid token;
\* and once the refresh succeeded the sync goes on to fetch and store until it
\* returns its report (or a page fetch fails).
C8_RefreshBeforeList ==
  /\ []ListsWithToken
  /\ \A p \in Calls : Refreshed(p) ~> Completed(p)

\* C8 witness: an OAuth call listed two pages with its refreshed token and
\* returned ok.
C8_Witness ==
  \E p \in Calls :
    /\ pc[p] = "done" /\ response[p].status = "ok"
    /\ payload[p].auth_type = "oauth"
    /\ Len(reqs[p]) = 2 /\ reqs[p][1].token = "access" /\ reqs[p][2].token = "access"
    /\ Len(wrote[p]) >= 1

\* The errors entries of the events without an id.
NoIdEntries(errs) == { k \in 1..Len(errs) : errs[k].kind = "event_no_id" }

\* C9: a successful response accounts for every fetched event exactly once:
\* total_fetched = inserted + updated + the number of errors entries; an event
\* with a missing or empty id is never written and gives one errors entry.
C9_Accounting ==
  /\ \A i \in 1..Len(calendar_events) : ~Falsy(calendar_events[i].id)
  /\ \A p \in Calls :
       (pc[p] = "done" /\ response[p].status = "ok") =>
         /\ response[p].total_fetched = Len(events[p])
         /\ response[p].total_fetched =
              response[p].inserted + response[p].updated + Len(response[p].errors)
         /\ Cardinality(NoIdEntries(response[p].errors)) =
              Len(events[p]) - WithId(events[p])
         /\ \A k \in NoIdEntries(response[p].errors) :
              Falsy(Get(response[p].errors[k].ev, "id"))

\* C9 witness: a call whose list repeats an id returned ok (one insert, one
\* update) while another call was in its upsert loop.
C9_Witness ==
  \E p, q \in Calls :
    /\ p # q
    /\ pc[p] = "done" /\ response[p].status = "ok"
    /\ response[p].total_fetched = 2
    /\ response[p].inserted = 1 /\ response[p].updated = 1
    /\ pc[q] \in {"upsert", "write"} /\ idx[q] = 2

\* C9 witness for the events without id: a call over an event with no id key
\* and one with an empty id returned ok with two errors entries.
C9_NoIdReached ==
  \E p \in Calls :
    /\ pc[p] = "done" /\ response[p].status = "ok"
    /\ response[p].total_fetched = 2 /\ Len(response[p].errors) = 2
    /\ "id" \notin DOMAIN events[p][1] /\ Get(events[p][2], "id") = ""

\* A stored user has the incoming email or the incoming name.
Known(coll, body) == \E i \in 1..Len(coll) : MatchesUser(coll[i], body)

\* No two stored users share an email or share a name.
UniqueUsers(coll) == \A i \in 1..Len(coll) : ~DuplicateKey(coll, coll[i], i)

\* C7 (the claim as stated): an add_user call served alone inserts exactly one
\* document and returns 201 when no stored user has the incoming email or
\* name; otherwise it updates exactly one existing document with the incoming
\* non-None fields, adds none, and returns 200, also when the email matches
\* one user and the name another; no two users share an email or a name after.
C7_CreateOrUpdate ==
  \A u \in Calls :
    (slots = 1 /\ upc[u] = "done" /\ \A q \in Calls : q > u => upc[q] = "idle") =>
      /\ UniqueUsers(users)
      /\ IF ~Known(ubefore[u], user[u])
           THEN /\ uresponse[u].status = 201
                /\ users = Append(ubefore[u], user[u])
           ELSE /\ uresponse[u].status = 200
                /\ \E i \in 1..Len(ubefore[u]) :
                     /\ MatchesUser(ubefore[u][i], user[u])
                     /\ users = [ubefore[u] EXCEPT ![i] = SetFields(@, user[u])]

\* The calls that returned 201.
Created == { u \in Calls : upc[u] = "done" /\ uresponse[u].status = 201 }

====
